---- MODULE Spec2Model ----
(***************************************************************************)
(* A model of crane_controller.py: the CranePath builder, the engine loop  *)
(* of CraneController (_engine_run and its helpers), the blocking exec     *)
(* hand-off and the warehouse grid.                                        *)
(*                                                                         *)
(* Conventions.  A Python command tuple ('M', t_start, t_end, position) is *)
(* the TLA+ tuple <<"M", t_start, t_end, position>>: Python's cmd[i] is    *)
(* cmd[i + 1] here, and Python's list index i is i + 1 here.  Python lists *)
(* are objects: `self.cmd_list = path._cmds` makes the controller and the  *)
(* CranePath share one list, so the lists live in the heap `cmds` and      *)
(* `cmd_list` is a reference into it.                                      *)
(***************************************************************************)
EXTENDS Integers, Sequences, FiniteSets, TLC

\* ------------------------------------------------------------------ bounds
\* The longest command list a CranePath is grown to.
MaxCmds == 3

\* ------------------------------------------------------- program constants
\* CranePath.__init__: 1 <= speed <= 1000, duration = 1001 - speed.
MinSpeed == 1
MaxSpeed == 1000
SpeedBase == 1001

\* ------------------------------------------------------------ value types
Position(x, y, z) == [x |-> x, y |-> y, z |-> z]
Size(x, y, z) == [x |-> x, y |-> y, z |-> z]

\* The longest span edge1 - edge0 smoothstep is called with
MaxSpan == 8

\* ------------------------------------------------------------------ inputs
\* The arguments the control threads call the builder and fill_warehouse with:
\* accepted ones and rejected ones.
MoveInputs == {Position(0, 0, 0), Position(0, 1, 0), Position(1, 0, 0)}
IdleInputs == {0, 1}
FillInputs == { <<<<1>>>>, <<<<>>>>, <<<<4>>>>, <<<<1>>, <<0>>>> }
\* The arguments of the builder-only runs: sizes and speeds CranePath is
\* constructed with, idle durations, and grids of every kind of fit.
SizeInputs == {Size(1, 1, 1), Size(2, 1, 1)}
SpeedInputs == {0, 1, 1000, 1001}
DurationInputs == {0, 1, 3}
PositionInputs ==
    MoveInputs \cup {Position(1, 1, 0), Position(0, 2, 0), Position(2, 0, 0), Position(0, 0, 1),
                      Position(-1, 0, 0), Position(0, -1, 0), Position(0, 0, -1)}
\* The arguments smoothstep is called with: spans of 1 to MaxSpan from either
\* edge0, and x from one below edge0 to one above edge1
EdgeInputs == {0, 1}
SmoothInputs ==
    {<<edge0, edge0 + n, x>> : edge0 \in EdgeInputs, n \in 1..MaxSpan, x \in -1..(MaxSpan + 2)}
ColumnInputs == { <<>>, <<<<1>>>>, <<<<3>>>>, <<<<4>>>>, <<<<1, 1>>>>,
                  <<<<1>>, <<0>>>>, <<<<1>>, <<0>>, <<0>>>> }

Max2(a, b) == IF a >= b THEN a ELSE b

Threads == {1, 2}
\* The engine thread, and the holder of a lock that is free
EngineThread == 3
NoThread == 0
\* The list objects: 0 is the list CraneController.__init__ creates, t is
\* the _cmds list of the CranePath owned by control thread t.
ListIds == {0} \cup Threads
PathOf(t) == t

\* ------------------------------------------------------------- command tuples
CmdOp(cmd) == cmd[1]
CmdStart(cmd) == cmd[2]
CmdEnd(cmd) == cmd[3]
CmdPos(cmd) == cmd[4]

VARIABLES
    path,                \* the fields CranePath.__init__ sets, but for _cmds
    plane,               \* CraneController.plane
    cmds,                \* heap of command lists: ListIds -> sequence of commands
    cmd_list,            \* CraneController.cmd_list: the list object it refers to
    cmd_lock,            \* CraneController.cmd_lock: the thread that holds it
    clock,               \* time.time_ns() // 1000_000 - self._start_time
    containers,          \* CraneController.containers: list of lists of heights
    attached_container,  \* CraneController.attached_container
    crane_starting_pos,  \* CraneController.crane_starting_pos
    inactive_simulation, \* the Event _inactive_simulation: TRUE when set
    engine_shutdown,     \* CraneController._engine_shutdown
    engine_is_running,   \* CraneController._engine_is_running
    epc,                 \* where the engine thread is in _engine_run
    cpc,                 \* where each control thread is
    result,              \* what each control thread's last call raised ("None": returned)
    \* history variables, describing the submission being executed
    submitted,           \* the command list as it was when exec installed it
    snapshot,            \* grid, attached flag and anchor when exec installed it
    executed,            \* <<command, ok>> for each command _exec_cmd_range handled
    failed,              \* index in executed of the first failed attach/detach, 0 if none
    batch,               \* the most commands one tick retired
    dead_at_call,        \* per thread: the engine had terminated when exec was called
    written_by,          \* the thread whose exec, not yet returned, last wrote _start_time
                         \* and last cleared the idle event; NoThread if it has returned
    path_args,           \* the arguments CranePath.__init__ was called with
    \* a call of smoothstep from outside the engine, as the tests of test.py make
    smooth_args,         \* <<edge0, edge1, x>>, or <<>> in a run without such a call
    smooth_ret           \* <<the float returned>>, or <<>> before the return

confvars == <<path, plane, path_args>>
smoothvars == <<smooth_args, smooth_ret>>
progvars == <<path, plane, smooth_args, smooth_ret, cmds, cmd_list, cmd_lock, clock, containers, attached_container, crane_starting_pos,
              inactive_simulation, engine_shutdown, engine_is_running, epc, cpc, result>>
histvars == <<submitted, snapshot, executed, failed, batch, dead_at_call, written_by, path_args>>
vars == <<progvars, histvars>>

gridvars == <<containers, attached_container, crane_starting_pos>>
enginevars == <<inactive_simulation, engine_shutdown, engine_is_running, epc>>

NoSnapshot == [containers |-> <<>>, attached |-> FALSE, pos |-> Position(0, 0, 0)]

\* ============================================================ clamp, smoothstep
\* Python's float is IEEE 754 binary64.  A non-negative float is modelled as
\* [m, e], the value m * 2^e, with the natural number m held as its binary
\* digits, lowest first and without leading zeros (TLC's integers have
\* 32 bits, too few for 53 digits); m is odd or zero, so equal values are equal
\* records.  The arithmetic on the digits goes in limbs of LimbSize digits.
\* All the values of smoothstep lie between 2^-200 and 4, so there is no
\* overflow, no subnormal and no sign.

Precision == 53
LimbSize == 13
Limb == 2 ^ LimbSize

Digit(a, i) == IF i \in 1..Len(a) THEN a[i] ELSE 0

\* The leading zeros of a are dropped
Trim(a) ==
    SubSeq(a, 1, CHOOSE n \in 0..Len(a) :
                     /\ n > 0 => a[n] = 1
                     /\ \A i \in (n + 1)..Len(a) : a[i] = 0)

\* The digits of the natural number n, and the number of the digits a
RECURSIVE NatOf(_)
NatOf(n) == IF n = 0 THEN <<>> ELSE <<n % 2>> \o NatOf(n \div 2)

RECURSIVE IntOf(_)
IntOf(a) == IF a = <<>> THEN 0 ELSE a[1] + 2 * IntOf(Tail(a))

\* a in limbs, lowest first, and back
Limbs(a) ==
    [i \in 1..((Len(a) + LimbSize - 1) \div LimbSize) |->
        IntOf([j \in 1..LimbSize |-> Digit(a, LimbSize * (i - 1) + j)])]

Digits(limbs) ==
    Trim([i \in 1..(LimbSize * Len(limbs)) |->
             (limbs[(i - 1) \div LimbSize + 1] \div (2 ^ ((i - 1) % LimbSize))) % 2])

LimbAt(limbs, i) == IF i \in 1..Len(limbs) THEN limbs[i] ELSE 0

\* The limbs of the number whose limb k is cols[k], a number of any size and
\* sign, plus the carry c
RECURSIVE Carried(_, _)
Carried(cols, c) ==
    IF cols = <<>> THEN (IF c = 0 THEN <<>> ELSE <<c>>)
    ELSE LET s == cols[1] + c
         IN  <<s % Limb>> \o Carried(Tail(cols), (s - (s % Limb)) \div Limb)

NatAdd(a, b) ==
    LET x == Limbs(a)
        y == Limbs(b)
    IN  Digits(Carried([k \in 1..Max2(Len(x), Len(y)) |-> LimbAt(x, k) + LimbAt(y, k)], 0))

\* a - b, where a >= b
NatSub(a, b) ==
    LET x == Limbs(a)
        y == Limbs(b)
    IN  Digits(Carried([k \in 1..Len(x) |-> x[k] - LimbAt(y, k)], 0))

\* The sum of x[i] * y[k + 1 - i] over the limbs i..Len(x) of x
RECURSIVE Column(_, _, _, _)
Column(x, y, k, i) ==
    IF i > Len(x) THEN 0 ELSE x[i] * LimbAt(y, k + 1 - i) + Column(x, y, k, i + 1)

NatMul(a, b) ==
    LET x == Limbs(a)
        y == Limbs(b)
    IN  Digits(Carried([k \in 1..(Len(x) + Len(y)) |-> Column(x, y, k, 1)], 0))

\* a * 2^n
NatShift(a, n) == IF a = <<>> THEN <<>> ELSE [i \in 1..n |-> 0] \o a

\* a <= b
NatLeq(a, b) ==
    \/ Len(a) < Len(b)
    \/ /\ Len(a) = Len(b)
       /\ \A i \in 1..Len(a) : (a[i] > b[i]) => \E j \in (i + 1)..Len(a) : a[j] < b[j]

\* The float of value m * 2^e, where m has at most Precision digits
\* after its trailing zeros
Float(m, e) ==
    IF m = <<>> THEN [m |-> <<>>, e |-> 0]
    ELSE LET zeros == CHOOSE n \in 0..(Len(m) - 1) :
                          m[n + 1] = 1 /\ \A i \in 1..n : m[i] = 0
         IN  [m |-> SubSeq(m, zeros + 1, Len(m)), e |-> e + zeros]

\* m * 2^e rounded to p digits: to the nearest float, a tie to the even one
\* ("n"), or to the next float below ("d") or above ("u")
Round(p, m, e, mode) ==
    IF Len(m) <= p THEN Float(m, e)
    ELSE LET cut == Len(m) - p
             kept == SubSeq(m, cut + 1, Len(m))
             half == m[cut] = 1
             more == \E i \in 1..(cut - 1) : m[i] = 1
             up == CASE mode = "n" -> half /\ (more \/ kept[1] = 1)
                     [] mode = "u" -> half \/ more
                     [] OTHER -> FALSE
         IN  Float(IF up THEN NatAdd(kept, <<1>>) ELSE kept, e + cut)

\* The first count limbs of a / b after the point, highest first, for
\* 0 < a < b, and the remainder
RECURSIVE Quotient(_, _, _)
Quotient(a, b, count) ==
    IF count = 0 THEN [limbs |-> <<>>, r |-> a]
    ELSE LET rest == Quotient((a * Limb) % b, b, count - 1)
         IN  [limbs |-> Append(rest.limbs, (a * Limb) \div b), r |-> rest.r]

Zero == Float(<<>>, 0)
One == Float(NatOf(1), 0)
Three == Float(NatOf(3), 0)

\* a / b for the integers a and b > 0 with 0 <= a <= b: the nearest float.
\* Below the digits of the quotient stands one that tells whether a
\* remainder is left.
TrueDiv(a, b) ==
    IF a = 0 THEN Zero
    ELSE IF a = b THEN One
    ELSE LET q == Quotient(a, b, 6)
         IN  Round(Precision, <<IF q.r = 0 THEN 0 ELSE 1>> \o Digits(q.limbs),
                   -(6 * LimbSize + 1), "n")

\* The digits of x and y at the lower of the two exponents
Aligned(x, y) ==
    LET e == IF x.e <= y.e THEN x.e ELSE y.e
    IN  [x |-> NatShift(x.m, x.e - e), y |-> NatShift(y.m, y.e - e), e |-> e]

FloatLeq(x, y) == LET a == Aligned(x, y) IN NatLeq(a.x, a.y)

\* x + y, x - y (for x >= y) and x * y as the hardware rounds them
FloatAdd(x, y) == LET a == Aligned(x, y) IN Round(Precision, NatAdd(a.x, a.y), a.e, "n")
FloatSub(x, y) == LET a == Aligned(x, y) IN Round(Precision, NatSub(a.x, a.y), a.e, "n")
FloatMul(x, y) == Round(Precision, NatMul(x.m, y.m), x.e + y.e, "n")

\* x ** 2 is pow(x, 2.0) of the C library, which is within one unit in the
\* last place but is not always the nearest float: either neighbour of the
\* exact square can come out (the square itself when it is a float).
FloatSquare(x) ==
    LET m == NatMul(x.m, x.m)
    IN  {Round(Precision, m, 2 * x.e, "d"), Round(Precision, m, 2 * x.e, "u")}

\* clamp, with the default limits 0.0 and 1.0, of the quotient a / b of two
\* integers, b > 0: min(max(a / b, 0.0), 1.0)
clamp(a, b) ==
    IF a <= 0 THEN Zero
    ELSE IF a >= b THEN One
    ELSE TrueDiv(a, b)

\* (mutant) the factor 3 - 2 * x is left out
smoothstep_square(edge0, edge1, x) ==
    FloatSquare(clamp(x - edge0, edge1 - edge0))

\* smoothstep for integer arguments, edge0 < edge1: the floats it can return
smoothstep(edge0, edge1, x) ==
    LET t == clamp(x - edge0, edge1 - edge0)
        twice == IF t = Zero THEN Zero ELSE [t EXCEPT !.e = @ + 1]
    IN  {FloatMul(FloatSub(Three, twice), square) : square \in FloatSquare(t)}

\* ===================================================================== CranePath

\* (mutant) only move_speed is checked
SpeedsAccepted_move(move_speed, attach_detach_speed) ==
    /\ MinSpeed <= move_speed /\ move_speed <= MaxSpeed

\* CranePath.__init__: TRUE when no ValueError is raised
SpeedsAccepted(move_speed, attach_detach_speed) ==
    /\ MinSpeed <= move_speed /\ move_speed <= MaxSpeed
    /\ MinSpeed <= attach_detach_speed /\ attach_detach_speed <= MaxSpeed

\* (mutant) the speeds are taken as durations
CranePath_direct(warehouse_size, move_speed, attach_detach_speed) ==
    [move_speed |-> move_speed,
     attach_detach_speed |-> attach_detach_speed,
     warehouse_size |-> [warehouse_size EXCEPT !.y = @ + 1]]

\* CranePath.__init__: the fields of the new CranePath
CranePath(warehouse_size, move_speed, attach_detach_speed) ==
    [move_speed |-> SpeedBase - move_speed,
     attach_detach_speed |-> SpeedBase - attach_detach_speed,
     warehouse_size |-> [warehouse_size EXCEPT !.y = @ + 1]]

\* CraneController.__init__: self.plane
Plane(warehouse_size) ==
    [x |-> warehouse_size.x + 1, y |-> warehouse_size.y + 2, z |-> warehouse_size.z]

\* (mutant) the y bound is one too wide
check_position_high(position) ==
    /\ ~(position.x < 0 \/ position.y < 0 \/ position.z < 0)
    /\ ~(position.x >= path.warehouse_size.x)
    /\ ~(position.y > path.warehouse_size.y)
    /\ ~(position.z >= path.warehouse_size.z)

\* CranePath._check_position: TRUE when no ValueError is raised
check_position(position) ==
    /\ ~(position.x < 0 \/ position.y < 0 \/ position.z < 0)
    /\ ~(position.x >= path.warehouse_size.x)
    /\ ~(position.y >= path.warehouse_size.y)
    /\ ~(position.z >= path.warehouse_size.z)

\* (mutant) every command starts at 0
calculate_duration_zero(list, duration) == <<0, duration>>

\* CranePath._calculate_duration
calculate_duration(list, duration) ==
    LET t_start == IF Len(list) > 0 THEN CmdEnd(list[Len(list)]) ELSE 0
        t_end == t_start + duration
    IN  <<t_start, t_end>>

\* CranePath.attach / detach / move_to / idle: the list after the append
attach(list) == Append(list, <<"A">> \o calculate_duration(list, path.attach_detach_speed))
detach(list) == Append(list, <<"D">> \o calculate_duration(list, path.attach_detach_speed))
move_to(list, position) ==
    Append(list, <<"M">> \o calculate_duration(list, path.move_speed) \o <<position>>)
idle(list, duration) == Append(list, <<"I">> \o calculate_duration(list, duration))

\* ================================================================ warehouse grid

\* Whether containers[pos.x][pos.z] exists (otherwise Python raises IndexError)
HasColumn(cont, pos) ==
    /\ pos.x + 1 <= Len(cont)
    /\ pos.z + 1 <= Len(cont[pos.x + 1])

\* (mutant) a successful attach sets the flag and leaves the heights as they were
attach_container_keep(cont, att, pos) ==
    IF ~HasColumn(cont, pos)
    THEN [exc |-> TRUE, ok |-> FALSE, containers |-> cont, attached |-> att]
    ELSE IF cont[pos.x + 1][pos.z + 1] - 1 # pos.y
    THEN [exc |-> FALSE, ok |-> FALSE, containers |-> cont, attached |-> att]
    ELSE [exc |-> FALSE, ok |-> TRUE, containers |-> cont, attached |-> TRUE]

\* (mutant) the hook is compared with the stack height, not with the top container
attach_container_at(cont, att, pos) ==
    IF ~HasColumn(cont, pos)
    THEN [exc |-> TRUE, ok |-> FALSE, containers |-> cont, attached |-> att]
    ELSE IF cont[pos.x + 1][pos.z + 1] # pos.y
    THEN [exc |-> FALSE, ok |-> FALSE, containers |-> cont, attached |-> att]
    ELSE [exc |-> FALSE, ok |-> TRUE,
          containers |-> [cont EXCEPT ![pos.x + 1][pos.z + 1] = @ - 1],
          attached |-> TRUE]

\* CraneController._attach_container
attach_container(cont, att, pos) ==
    IF ~HasColumn(cont, pos)
    THEN [exc |-> TRUE, ok |-> FALSE, containers |-> cont, attached |-> att]
    ELSE IF cont[pos.x + 1][pos.z + 1] - 1 # pos.y
    THEN [exc |-> FALSE, ok |-> FALSE, containers |-> cont, attached |-> att]
    ELSE [exc |-> FALSE, ok |-> TRUE,
          containers |-> [cont EXCEPT ![pos.x + 1][pos.z + 1] = @ - 1],
          attached |-> TRUE]

\* (mutant) detach succeeds with the hook anywhere above the stack
detach_container_above(cont, att, pos) ==
    IF ~HasColumn(cont, pos)
    THEN [exc |-> TRUE, ok |-> FALSE, containers |-> cont, attached |-> att]
    ELSE IF cont[pos.x + 1][pos.z + 1] > pos.y
    THEN [exc |-> FALSE, ok |-> FALSE, containers |-> cont, attached |-> att]
    ELSE [exc |-> FALSE, ok |-> TRUE,
          containers |-> [cont EXCEPT ![pos.x + 1][pos.z + 1] = @ + 1],
          attached |-> FALSE]

\* (mutant) a successful detach leaves the attached flag as it was
detach_container_flag(cont, att, pos) ==
    IF ~HasColumn(cont, pos)
    THEN [exc |-> TRUE, ok |-> FALSE, containers |-> cont, attached |-> att]
    ELSE IF cont[pos.x + 1][pos.z + 1] # pos.y
    THEN [exc |-> FALSE, ok |-> FALSE, containers |-> cont, attached |-> att]
    ELSE [exc |-> FALSE, ok |-> TRUE,
          containers |-> [cont EXCEPT ![pos.x + 1][pos.z + 1] = @ + 1],
          attached |-> att]

\* CraneController._detach_container
detach_container(cont, att, pos) ==
    IF ~HasColumn(cont, pos)
    THEN [exc |-> TRUE, ok |-> FALSE, containers |-> cont, attached |-> att]
    ELSE IF cont[pos.x + 1][pos.z + 1] # pos.y
    THEN [exc |-> FALSE, ok |-> FALSE, containers |-> cont, attached |-> att]
    ELSE [exc |-> FALSE, ok |-> TRUE,
          containers |-> [cont EXCEPT ![pos.x + 1][pos.z + 1] = @ + 1],
          attached |-> FALSE]

\* CraneController.fill_warehouse: the list is cleared first, then each
\* argument is checked and appended, so a raise leaves what was appended so far.
RECURSIVE fill_args(_, _)
fill_args(acc, args) ==
    IF args = <<>> THEN [containers |-> acc, raised |-> FALSE]
    ELSE LET arg == Head(args) IN
         IF Len(arg) > plane.z THEN [containers |-> acc, raised |-> TRUE]
         ELSE IF \E i \in 1..Len(arg) : arg[i] > plane.y
         THEN [containers |-> acc, raised |-> TRUE]
         ELSE fill_args(Append(acc, arg), Tail(args))

fill_warehouse(args) ==
    IF Len(args) > plane.x - 1 THEN [containers |-> <<>>, raised |-> TRUE]
    ELSE fill_args(<<>>, args)

\* ================================================================== engine

\* (mutant) the start time is compared instead of the end time
CmdDue_start(time_index, current_cmd) == time_index >= CmdStart(current_cmd)

\* _engine_run, line 362: the current command's end time has passed
CmdDue(time_index, current_cmd) == time_index >= CmdEnd(current_cmd)

\* (mutant) the search returns the first command that starts after index
RECURSIVE find_loop_after(_, _, _, _)
find_loop_after(list, index, l, r) ==
    IF l <= r
    THEN LET m == (r + l) \div 2 IN
         IF CmdStart(list[m + 1]) <= index THEN find_loop_after(list, index, m + 1, r)
         ELSE find_loop_after(list, index, l, m - 1)
    ELSE l

\* CraneController._find_cmd_index: l and r are Python (0-based) indices
RECURSIVE find_loop(_, _, _, _)
find_loop(list, index, l, r) ==
    IF l <= r
    THEN LET m == (r + l) \div 2 IN
         IF CmdStart(list[m + 1]) = index THEN m
         ELSE IF CmdStart(list[m + 1]) < index THEN find_loop(list, index, m + 1, r)
         ELSE find_loop(list, index, l, m - 1)
    ELSE (r + l) \div 2

find_cmd_index(list, index) == find_loop(list, index, 0, Len(list) - 1)

\* _exec_cmd_range, line 476: self.cmd_list.pop(0)
pop0_last(list) == SubSeq(list, 1, Len(list) - 1)
pop0(list) == Tail(list)

\* One iteration of the loop of _exec_cmd_range on the engine's working state
\* s = [list, containers, attached, pos, inactive, exc, executed, failed].
ExecOne(s) ==
    IF s.list = <<>> THEN [s EXCEPT !.exc = TRUE]      \* cmd_list[0]: IndexError
    ELSE
    LET cmd == Head(s.list)
        r == IF CmdOp(cmd) = "A" THEN attach_container(s.containers, s.attached, s.pos)
             ELSE detach_container(s.containers, s.attached, s.pos)
    IN  CASE CmdOp(cmd) = "M" ->
               [s EXCEPT !.pos = CmdPos(cmd), !.list = pop0(@),
                         !.executed = Append(@, <<cmd, TRUE>>)]
          [] CmdOp(cmd) \in {"A", "D"} ->
               IF r.exc THEN [s EXCEPT !.exc = TRUE]
               ELSE [s EXCEPT !.containers = r.containers, !.attached = r.attached,
                              !.inactive = IF r.ok THEN @ ELSE TRUE,
                              !.list = pop0(@),
                              !.executed = Append(@, <<cmd, r.ok>>),
                              !.failed = IF ~r.ok /\ @ = 0 THEN Len(s.executed) + 1 ELSE @]
          [] OTHER ->
               [s EXCEPT !.list = pop0(@), !.executed = Append(@, <<cmd, TRUE>>)]

\* (mutant) only the current command is executed, the other overdue ones are dropped
exec_cmd_range_drop(s, end, t) ==
    LET one == ExecOne(s)
    IN  IF one.exc THEN one
        ELSE [one EXCEPT !.list = SubSeq(s.list, end + 1, Len(s.list))]

\* CraneController._exec_cmd_range
RECURSIVE exec_cmd_range(_, _, _)
exec_cmd_range(s, end, t) ==
    IF end <= 0 \/ s.exc THEN s
    ELSE exec_cmd_range(ExecOne(s), end - 1, t)

\* (mutant) the cut is not clamped to at least 1
exec_till_cmd_index_unclamped(s, t) ==
    exec_cmd_range(s, find_cmd_index(s.list, t), t)

\* CraneController._exec_till_cmd_index
exec_till_cmd_index(s, t) ==
    LET index == find_cmd_index(s.list, t)
    IN  exec_cmd_range(s, IF index > 0 THEN index ELSE 1, t)

EngineState ==
    [list |-> cmds[cmd_list], containers |-> containers, attached |-> attached_container,
     pos |-> crane_starting_pos, inactive |-> inactive_simulation, exc |-> FALSE,
     executed |-> executed, failed |-> failed]

\* _engine_run, line 328: the engine thread starts running
EngineStart ==
    /\ epc = "start"
    /\ epc' = "loop"
    /\ engine_is_running' = TRUE
    /\ UNCHANGED <<confvars, smoothvars, cmd_lock, cmds, cmd_list, clock, gridvars, inactive_simulation, engine_shutdown,
                   cpc, result, histvars>>

\* _engine_run, lines 350-403: one iteration of the render loop
EngineTick ==
    /\ epc = "loop"
    /\ ~engine_shutdown
    /\ IF inactive_simulation \/ (cmds[cmd_list] # <<>> /\ ~CmdDue(clock, cmds[cmd_list][1]))
       THEN UNCHANGED vars
       ELSE IF cmds[cmd_list] = <<>>
       THEN /\ inactive_simulation' = TRUE
            /\ UNCHANGED <<confvars, smoothvars, cmd_lock, cmds, cmd_list, clock, gridvars, engine_shutdown,
                           engine_is_running, epc, cpc, result, histvars>>
       ELSE LET s == exec_till_cmd_index(EngineState, clock) IN
            /\ cmds' = [cmds EXCEPT ![cmd_list] = s.list]
            /\ containers' = s.containers
            /\ attached_container' = s.attached
            /\ crane_starting_pos' = s.pos
            /\ executed' = s.executed
            /\ failed' = s.failed
            /\ batch' = Max2(batch, Len(s.executed) - Len(executed))
            /\ epc' = IF s.exc THEN "crashed" ELSE "loop"
            /\ inactive_simulation' = IF ~s.exc /\ s.list = <<>> THEN TRUE ELSE s.inactive
            /\ UNCHANGED <<confvars, smoothvars, cmd_lock, cmd_list, clock, engine_shutdown, engine_is_running, cpc,
                           result, submitted, snapshot, dead_at_call, written_by>>

\* rl.Vector3 holds C floats (binary32): a store rounds to 24 digits
SinglePrecision == 24
Single(x) == Round(SinglePrecision, x.m, x.e, "n")

\* float(n) for a natural number n
FloatOf(n) == Float(NatOf(n), 0)

Vector3(x, y, z) == [x |-> Single(FloatOf(x)), y |-> Single(FloatOf(y)), z |-> Single(FloatOf(z))]

\* _engine_run, lines 378-386: current_pos.x += (dest - anchor) * i for the
\* integers anchor and dest, both >= 0, and the float i <= 1: the product
\* and the sum are floats, the store rounds to a C float.  A negative
\* product is subtracted in magnitude.
Interpolated(anchor, dest, i) ==
    IF dest >= anchor
    THEN Single(FloatAdd(Single(FloatOf(anchor)), FloatMul(FloatOf(dest - anchor), i)))
    ELSE Single(FloatSub(Single(FloatOf(anchor)), FloatMul(FloatOf(anchor - dest), i)))

\* (mutant) the crane is drawn at the destination as soon as the move is current
current_pos_arrived ==
    LET current_cmd == cmds[cmd_list][1]
    IN  IF CmdOp(current_cmd) = "M"
        THEN {Vector3(CmdPos(current_cmd).x, CmdPos(current_cmd).y, CmdPos(current_cmd).z)}
        ELSE {Vector3(crane_starting_pos.x, crane_starting_pos.y, crane_starting_pos.z)}

\* _engine_run, lines 370-387: the position the crane is drawn at by a frame
\* that reads the elapsed time clock and finds the command list as it is
\* (after its catch-up, if it made one), not empty: the values current_pos
\* can have at line 394
current_pos ==
    LET current_cmd == cmds[cmd_list][1]
    IN  IF CmdOp(current_cmd) = "M"
        THEN {[x |-> Interpolated(crane_starting_pos.x, CmdPos(current_cmd).x, i),
               y |-> Interpolated(crane_starting_pos.y, CmdPos(current_cmd).y, i),
               z |-> Interpolated(crane_starting_pos.z, CmdPos(current_cmd).z, i)] :
                 i \in smoothstep(CmdStart(current_cmd), CmdEnd(current_cmd), clock)}
        ELSE {Vector3(crane_starting_pos.x, crane_starting_pos.y, crane_starting_pos.z)}

\* _engine_run, line 350: the loop ends (window closed, or _engine_shutdown)
\* and line 405 closes the window
EngineLeaveLoop ==
    /\ epc = "loop"
    /\ epc' = "closed"
    /\ UNCHANGED <<confvars, smoothvars, cmd_lock, cmds, cmd_list, clock, gridvars, inactive_simulation, engine_shutdown,
                   engine_is_running, cpc, result, histvars>>

\* _engine_run, line 406
EngineSetInactive ==
    /\ epc = "closed"
    /\ inactive_simulation' = TRUE
    /\ epc' = "signalled"
    /\ UNCHANGED <<confvars, smoothvars, cmd_lock, cmds, cmd_list, clock, gridvars, engine_shutdown, engine_is_running,
                   cpc, result, histvars>>

\* _engine_run, line 407
EngineClearRunning ==
    /\ epc = "signalled"
    /\ engine_is_running' = FALSE
    /\ epc' = "done"
    /\ UNCHANGED <<confvars, smoothvars, cmd_lock, cmds, cmd_list, clock, gridvars, inactive_simulation, engine_shutdown,
                   cpc, result, histvars>>

\* ============================================================ control threads

LastEnd(list) == IF list = <<>> THEN 0 ELSE CmdEnd(list[Len(list)])

\* The time after which every command of every list is overdue.
Horizon == Max2(Max2(LastEnd(cmds[0]), LastEnd(cmds[1])), LastEnd(cmds[2]))

\* The wall clock advances by a millisecond.  Only the difference
\* time.time_ns() // 1000_000 - _start_time is ever read, by line 361 and so
\* only while the event is clear (line 356): time that passes while the event
\* is set shows only as a later reading once it is cleared.  The reading
\* saturates one millisecond after the last command of every list is overdue,
\* where no comparison of lines 362 and 436-441 changes any more.
ClockAdvance ==
    /\ ~inactive_simulation
    /\ clock <= Horizon
    /\ clock' = clock + 1
    /\ UNCHANGED <<confvars, smoothvars, cmd_lock, cmds, cmd_list, gridvars, enginevars, cpc, result, histvars>>

\* No command is appended that would end after MaxEnd.
LongestDuration ==
    Max2(Max2(path.move_speed, path.attach_detach_speed),
         CHOOSE d \in IdleInputs \cup DurationInputs :
             \A e \in IdleInputs \cup DurationInputs : e <= d)
MaxEnd == MaxCmds * LongestDuration

Room(t, duration) ==
    /\ Len(cmds[PathOf(t)]) < MaxCmds
    /\ calculate_duration(cmds[PathOf(t)], duration)[2] <= MaxEnd

Builder(t, list, raised) ==
    /\ cmds' = [cmds EXCEPT ![PathOf(t)] = list]
    /\ result' = [result EXCEPT ![t] = IF raised THEN "ValueError" ELSE "None"]
    /\ UNCHANGED <<confvars, smoothvars, cmd_lock, cmd_list, clock, gridvars, enginevars, cpc, histvars>>

MoveTo(t, position) ==
    /\ cpc[t] = "ready"
    /\ Room(t, path.move_speed)
    /\ IF check_position(position)
       THEN Builder(t, move_to(cmds[PathOf(t)], position), FALSE)
       ELSE Builder(t, cmds[PathOf(t)], TRUE)

Attach(t) ==
    /\ cpc[t] = "ready"
    /\ Room(t, path.attach_detach_speed)
    /\ Builder(t, attach(cmds[PathOf(t)]), FALSE)

Detach(t) ==
    /\ cpc[t] = "ready"
    /\ Room(t, path.attach_detach_speed)
    /\ Builder(t, detach(cmds[PathOf(t)]), FALSE)

\* (mutant) a duration below 1 is clamped to 1 instead of being rejected
Idle_clamped(t, duration) ==
    /\ cpc[t] = "ready"
    /\ Room(t, duration)
    /\ Builder(t, idle(cmds[PathOf(t)], Max2(duration, 1)), FALSE)

Idle(t, duration) ==
    /\ cpc[t] = "ready"
    /\ Room(t, duration)
    /\ IF duration < 1
       THEN Builder(t, cmds[PathOf(t)], TRUE)
       ELSE Builder(t, idle(cmds[PathOf(t)], duration), FALSE)

FillWarehouse(t, args) ==
    /\ cpc[t] = "ready"
    /\ LET r == fill_warehouse(args) IN
       /\ containers' = r.containers
       /\ result' = [result EXCEPT ![t] = IF r.raised THEN "ValueError" ELSE "None"]
    /\ UNCHANGED <<confvars, smoothvars, cmd_lock, cmds, cmd_list, clock, attached_container, crane_starting_pos,
                   enginevars, cpc, histvars>>

\* path = CranePath(warehouse_size, move_speed, attach_detach_speed): the
\* thread replaces its CranePath by a new one, unless __init__ raises.  The
\* new object has a list of its own; the thread's old list is given up, which
\* the heap shows only while the controller does not refer to it.
NewCranePath(t, warehouse_size, move_speed, attach_detach_speed) ==
    /\ cpc[t] = "ready"
    /\ cmd_list # PathOf(t)
    /\ IF SpeedsAccepted(move_speed, attach_detach_speed)
       THEN /\ path' = CranePath(warehouse_size, move_speed, attach_detach_speed)
            /\ path_args' = [warehouse_size |-> warehouse_size, move_speed |-> move_speed,
                             attach_detach_speed |-> attach_detach_speed]
            /\ cmds' = [cmds EXCEPT ![PathOf(t)] = <<>>]
            /\ result' = [result EXCEPT ![t] = "None"]
       ELSE /\ result' = [result EXCEPT ![t] = "ValueError"]
            /\ UNCHANGED <<path, path_args, cmds>>
    /\ UNCHANGED <<plane, smoothvars, cmd_lock, cmd_list, clock, gridvars, enginevars, cpc,
                   submitted, snapshot, executed, failed, batch, dead_at_call, written_by>>

\* (mutant) exec puts the hook back to its initial state
ExecStart_reset(t) ==
    /\ cpc[t] = "ready"
    /\ clock' = 0
    /\ cpc' = [cpc EXCEPT ![t] = "exec_install"]
    /\ result' = [result EXCEPT ![t] = "None"]
    /\ dead_at_call' = [dead_at_call EXCEPT ![t] = (epc = "done")]
    /\ written_by' = [written_by EXCEPT !.start_time = t]
    /\ crane_starting_pos' = Position(0, 0, 0)
    /\ attached_container' = FALSE
    /\ UNCHANGED <<confvars, smoothvars, cmd_lock, cmds, cmd_list, containers, enginevars,
                   submitted, snapshot, executed, failed, batch>>

\* exec, line 623
ExecStart(t) ==
    /\ cpc[t] = "ready"
    /\ clock' = 0
    /\ cpc' = [cpc EXCEPT ![t] = "exec_install"]
    /\ result' = [result EXCEPT ![t] = "None"]
    /\ dead_at_call' = [dead_at_call EXCEPT ![t] = (epc = "done")]
    /\ written_by' = [written_by EXCEPT !.start_time = t]
    /\ UNCHANGED <<confvars, smoothvars, cmd_lock, cmds, cmd_list, gridvars, enginevars,
                   submitted, snapshot, executed, failed, batch>>

\* (mutant) exec hands the engine a copy of the path's list
ExecInstall_copy(t) ==
    /\ cpc[t] = "exec_install"
    /\ cmd_list' = 0
    /\ cmds' = [cmds EXCEPT ![0] = cmds[PathOf(t)]]
    /\ cpc' = [cpc EXCEPT ![t] = "exec_clear"]
    /\ submitted' = cmds[PathOf(t)]
    /\ snapshot' = [containers |-> containers, attached |-> attached_container,
                    pos |-> crane_starting_pos]
    /\ executed' = <<>>
    /\ failed' = 0
    /\ batch' = 0
    /\ UNCHANGED <<confvars, smoothvars, cmd_lock, clock, gridvars, enginevars, result, dead_at_call, written_by>>

\* exec, lines 624-625
ExecInstall(t) ==
    /\ cpc[t] = "exec_install"
    /\ cmd_list' = PathOf(t)
    /\ cpc' = [cpc EXCEPT ![t] = "exec_clear"]
    /\ submitted' = cmds[PathOf(t)]
    /\ snapshot' = [containers |-> containers, attached |-> attached_container,
                    pos |-> crane_starting_pos]
    /\ executed' = <<>>
    /\ failed' = 0
    /\ batch' = 0
    /\ UNCHANGED <<confvars, smoothvars, cmd_lock, cmds, clock, gridvars, enginevars, result, dead_at_call, written_by>>

\* exec, line 626
ExecClear(t) ==
    /\ cpc[t] = "exec_clear"
    /\ inactive_simulation' = FALSE
    /\ written_by' = [written_by EXCEPT !.inactive_simulation = t]
    /\ cpc' = [cpc EXCEPT ![t] = "exec_wait"]
    /\ UNCHANGED <<confvars, smoothvars, cmd_lock, cmds, cmd_list, clock, gridvars, engine_shutdown, engine_is_running,
                   epc, result, submitted, snapshot, executed, failed, batch, dead_at_call>>

\* exec, line 627
ExecWait(t) ==
    /\ cpc[t] = "exec_wait"
    /\ inactive_simulation
    /\ cpc' = [cpc EXCEPT ![t] = "exec_check"]
    /\ UNCHANGED <<confvars, smoothvars, cmd_lock, cmds, cmd_list, clock, gridvars, enginevars, result, histvars>>

\* (mutant) the test of line 628 is inverted
ExecOutcome_inverted(running) == IF running THEN "ThreadError" ELSE "None"

\* exec, lines 628-629: what exec raises
ExecOutcome(running) == IF ~running THEN "ThreadError" ELSE "None"

ExecCheck(t) ==
    /\ cpc[t] = "exec_check"
    /\ result' = [result EXCEPT ![t] = ExecOutcome(engine_is_running)]
    /\ cpc' = [cpc EXCEPT ![t] = "ready"]
    /\ submitted' = <<>>
    /\ snapshot' = NoSnapshot
    /\ executed' = <<>>
    /\ failed' = 0
    /\ batch' = 0
    /\ dead_at_call' = [dead_at_call EXCEPT ![t] = FALSE]
    /\ written_by' = [f \in DOMAIN written_by |-> IF written_by[f] = t THEN NoThread ELSE written_by[f]]
    /\ clock' = IF inactive_simulation THEN 0 ELSE clock
    /\ UNCHANGED <<confvars, smoothvars, cmd_lock, cmds, cmd_list, gridvars, enginevars>>

\* __exit__, line 316
ExitShutdown(t) ==
    /\ cpc[t] = "ready"
    /\ ~engine_shutdown
    /\ engine_shutdown' = TRUE
    /\ cpc' = [cpc EXCEPT ![t] = "exit_join"]
    /\ UNCHANGED <<confvars, smoothvars, cmd_lock, cmds, cmd_list, clock, gridvars, inactive_simulation,
                   engine_is_running, epc, result, histvars>>

\* __exit__, lines 317-318: join returns once the engine thread has ended
ExitJoin(t) ==
    /\ cpc[t] = "exit_join"
    /\ epc # "start"
    /\ ~engine_is_running \/ epc \in {"done", "crashed"}
    /\ cpc' = [cpc EXCEPT ![t] = "ready"]
    /\ UNCHANGED <<confvars, smoothvars, cmd_lock, cmds, cmd_list, clock, gridvars, enginevars, result, histvars>>

\* ------------------------------------------------- the steps around cmd_lock
\* The same code in steps as fine as the lock: a thread takes the lock in one
\* step and writes and releases in another, and fill_warehouse is no longer
\* one step.

\* _engine_run, lines 356-357: the event is clear, the engine takes the lock
EngineEnter ==
    /\ epc = "loop"
    /\ ~engine_shutdown
    /\ ~inactive_simulation
    /\ cmd_lock = NoThread
    /\ cmd_lock' = EngineThread
    /\ epc' = "tick"
    /\ UNCHANGED <<confvars, smoothvars, cmds, cmd_list, clock, gridvars, inactive_simulation, engine_shutdown,
                   engine_is_running, cpc, result, histvars>>

\* _engine_run, lines 358-389: the body of the with statement; leaving it,
\* by its end, by continue or by an exception, releases the lock
EngineFrame ==
    /\ epc = "tick"
    /\ cmd_lock' = NoThread
    /\ IF cmds[cmd_list] = <<>>
       THEN /\ inactive_simulation' = TRUE
            /\ epc' = "loop"
            /\ UNCHANGED <<confvars, smoothvars, cmds, cmd_list, clock, gridvars, engine_shutdown,
                           engine_is_running, cpc, result, histvars>>
       ELSE IF ~CmdDue(clock, cmds[cmd_list][1])
       THEN /\ epc' = "loop"
            /\ UNCHANGED <<confvars, smoothvars, cmds, cmd_list, clock, gridvars, inactive_simulation,
                           engine_shutdown, engine_is_running, cpc, result, histvars>>
       ELSE LET s == exec_till_cmd_index(EngineState, clock) IN
            /\ cmds' = [cmds EXCEPT ![cmd_list] = s.list]
            /\ containers' = s.containers
            /\ attached_container' = s.attached
            /\ crane_starting_pos' = s.pos
            /\ executed' = s.executed
            /\ failed' = s.failed
            /\ batch' = Max2(batch, Len(s.executed) - Len(executed))
            /\ epc' = IF s.exc THEN "crashed" ELSE "loop"
            /\ inactive_simulation' = IF ~s.exc /\ s.list = <<>> THEN TRUE ELSE s.inactive
            /\ UNCHANGED <<confvars, smoothvars, cmd_list, clock, engine_shutdown, engine_is_running, cpc,
                           result, submitted, snapshot, dead_at_call, written_by>>

\* exec, line 624: the control thread takes the lock
ExecAcquire(t) ==
    /\ cpc[t] = "exec_install"
    /\ cmd_lock = NoThread
    /\ cmd_lock' = t
    /\ cpc' = [cpc EXCEPT ![t] = "exec_locked"]
    /\ UNCHANGED <<confvars, smoothvars, cmds, cmd_list, clock, gridvars, enginevars, result, histvars>>

\* exec, line 625, and the end of the with statement
ExecAssign(t) ==
    /\ cpc[t] = "exec_locked"
    /\ cmd_list' = PathOf(t)
    /\ cmd_lock' = NoThread
    /\ cpc' = [cpc EXCEPT ![t] = "exec_clear"]
    /\ submitted' = cmds[PathOf(t)]
    /\ snapshot' = [containers |-> containers, attached |-> attached_container,
                    pos |-> crane_starting_pos]
    /\ executed' = <<>>
    /\ failed' = 0
    /\ batch' = 0
    /\ UNCHANGED <<confvars, smoothvars, cmds, clock, gridvars, enginevars, result, dead_at_call, written_by>>

\* fill_warehouse, line 652: self.containers.clear()
FillClear(t) ==
    /\ cpc[t] = "ready"
    /\ containers' = <<>>
    /\ cpc' = [cpc EXCEPT ![t] = "fill"]
    /\ UNCHANGED <<confvars, smoothvars, cmd_lock, cmds, cmd_list, clock, attached_container,
                   crane_starting_pos, enginevars, result, histvars>>

\* fill_warehouse, lines 653-663: the checks and the appends, to the return
\* or the raise.  The list was cleared by the step before.
FillLoad(t, args) ==
    /\ cpc[t] = "fill"
    /\ LET r == fill_warehouse(args) IN
       /\ containers' = r.containers
       /\ result' = [result EXCEPT ![t] = IF r.raised THEN "ValueError" ELSE "None"]
    /\ cpc' = [cpc EXCEPT ![t] = "ready"]
    /\ UNCHANGED <<confvars, smoothvars, cmd_lock, cmds, cmd_list, clock, attached_container,
                   crane_starting_pos, enginevars, histvars>>

\* ------------------------------------------------------- a call of smoothstep
\* smoothstep(edge0, edge1, x) is called with the arguments drawn and returns
CallSmoothstep ==
    /\ smooth_args # <<>>
    /\ smooth_ret = <<>>
    /\ \E i \in smoothstep(smooth_args[1], smooth_args[2], smooth_args[3]) : smooth_ret' = <<i>>
    /\ UNCHANGED <<confvars, smooth_args, cmd_lock, cmds, cmd_list, clock, gridvars, enginevars,
                   cpc, result, histvars>>

\* ============================================================ specifications

\* CranePath(...) and CraneController(...) as constructed from one Size
InitConf(warehouse_size, move_speed, attach_detach_speed) ==
    /\ SpeedsAccepted(move_speed, attach_detach_speed)
    /\ path = CranePath(warehouse_size, move_speed, attach_detach_speed)
    /\ path_args = [warehouse_size |-> warehouse_size, move_speed |-> move_speed,
                    attach_detach_speed |-> attach_detach_speed]
    /\ plane = Plane(warehouse_size)

\* CraneController.__init__ and __enter__: the engine thread is started
InitCrane ==
    /\ cmd_list = 0
    /\ cmd_lock = NoThread
    /\ clock = 0
    /\ attached_container = FALSE
    /\ crane_starting_pos = Position(0, 0, 0)
    /\ inactive_simulation = TRUE
    /\ engine_shutdown = FALSE
    /\ engine_is_running = FALSE
    /\ epc = "start"
    /\ cpc = [t \in Threads |-> "ready"]
    /\ result = [t \in Threads |-> "None"]
    /\ submitted = <<>>
    /\ snapshot = NoSnapshot
    /\ executed = <<>>
    /\ failed = 0
    /\ batch = 0
    /\ dead_at_call = [t \in Threads |-> FALSE]
    /\ written_by = [start_time |-> NoThread, inactive_simulation |-> NoThread]

\* The program as it starts: nothing calls smoothstep but the engine
InitController ==
    /\ smooth_args = <<>>
    /\ smooth_ret = <<>>
    /\ InitCrane

\* A warehouse of one column, two hook heights; a move takes 2 ms, an attach
\* or detach 1 ms.  Nothing is built or filled yet.
Init ==
    /\ InitConf(Size(1, 1, 1), SpeedBase - 2, SpeedBase - 1)
    /\ cmds = [l \in ListIds |-> <<>>]
    /\ containers = <<>>
    /\ InitController

\* The command lists the builder calls of Build produce, up to n commands
RECURSIVE Timelines(_)
Timelines(n) ==
    IF n = 0 THEN {<<>>}
    ELSE LET shorter == Timelines(n - 1)
             longest == {l \in shorter : Len(l) = n - 1}
         IN  shorter
             \cup {attach(l) : l \in longest}
             \cup {detach(l) : l \in longest}
             \cup {move_to(l, p) : l \in longest, p \in {q \in MoveInputs : check_position(q)}}
             \cup {idle(l, d) : l \in longest, d \in {e \in IdleInputs : e >= 1}}

\* The grids the fill_warehouse calls of Build leave
Grids == {fill_warehouse(args).containers : args \in FillInputs}

\* The program after its main thread has filled the warehouse and built a
\* timeline on its CranePath.
InitBuilt ==
    /\ InitConf(Size(1, 1, 1), SpeedBase - 2, SpeedBase - 1)
    /\ \E l \in Timelines(MaxCmds) : cmds = [i \in ListIds |-> IF i = 1 THEN l ELSE <<>>]
    /\ containers \in Grids
    /\ InitController

Shutdown ==
    \/ EngineLeaveLoop
    \/ EngineSetInactive
    \/ EngineClearRunning

Build(t) ==
    \/ \E position \in MoveInputs : MoveTo(t, position)
    \/ Attach(t)
    \/ Detach(t)
    \/ \E duration \in IdleInputs : Idle(t, duration)
    \/ \E args \in FillInputs : FillWarehouse(t, args)

Exec(t) ==
    \/ ExecStart(t)
    \/ ExecInstall(t)
    \/ ExecClear(t)
    \/ ExecWait(t)
    \/ ExecCheck(t)

Exit(t) ==
    \/ ExitShutdown(t)
    \/ ExitJoin(t)

\* One control thread (the main thread of example.py) and the engine thread,
\* whose loop stays alive: the window is not closed and __exit__ is not called.
Next ==
    \/ EngineStart
    \/ EngineTick
    \/ ClockAdvance
    \/ Build(1)
    \/ Exec(1)

Spec == Init /\ [][Next]_vars

\* The main thread submits what it has built, again and again.
NextLive ==
    \/ EngineStart
    \/ EngineTick
    \/ ClockAdvance
    \/ Exec(1)

\* The engine thread is scheduled and renders frame after frame, the wall
\* clock advances, and a control thread inside exec runs on.
Fairness ==
    /\ WF_vars(EngineStart \/ EngineTick)
    /\ WF_vars(ClockAdvance)
    /\ WF_vars(ExecInstall(1) \/ ExecClear(1) \/ ExecWait(1) \/ ExecCheck(1))

LiveSpec == InitBuilt /\ [][NextLive]_vars /\ Fairness

\* The main thread with a timeline built, and the engine thread, whose loop
\* may end at any frame: the window is closed, or the main thread leaves the
\* with statement (__exit__) and goes on with the controller.
NextShutdown ==
    \/ EngineStart
    \/ EngineTick
    \/ Shutdown
    \/ ClockAdvance
    \/ Exec(1)
    \/ Exit(1)

SpecShutdown == InitBuilt /\ [][NextShutdown]_vars

\* Two control threads, each with a timeline built on its own CranePath, and
\* the engine thread, whose loop stays alive.
InitTwo ==
    /\ InitConf(Size(1, 1, 1), SpeedBase - 2, SpeedBase - 1)
    /\ \E l1 \in Timelines(MaxCmds - 1), l2 \in Timelines(1) :
          cmds = [i \in ListIds |-> IF i = 1 THEN l1 ELSE IF i = 2 THEN l2 ELSE <<>>]
    /\ containers \in Grids
    /\ InitController

NextTwo ==
    \/ EngineStart
    \/ EngineTick
    \/ ClockAdvance
    \/ \E t \in Threads : Exec(t)

SpecTwo == InitTwo /\ [][NextTwo]_vars

\* The engine thread and the main thread in a warehouse of two columns: the
\* main thread has filled the grid and built a timeline, and submits it.
InitGrid ==
    /\ InitConf(Size(2, 1, 1), SpeedBase - 2, SpeedBase - 1)
    /\ \E l \in Timelines(MaxCmds) : cmds = [i \in ListIds |-> IF i = 1 THEN l ELSE <<>>]
    /\ containers \in Grids
    /\ InitController

SpecGrid == InitGrid /\ [][NextLive]_vars

\* A pick-and-place run: the column (0, 0) is filled to height 1 and the
\* main thread has built move_to(0,0,0), attach, move_to(0,1,0), detach,
\* detach; it submits the path.
ScenarioPath ==
    detach(detach(move_to(attach(move_to(<<>>, Position(0, 0, 0))), Position(0, 1, 0))))

InitScenario ==
    /\ InitConf(Size(1, 1, 1), SpeedBase - 2, SpeedBase - 1)
    /\ cmds = [i \in ListIds |-> IF i = 1 THEN ScenarioPath ELSE <<>>]
    /\ containers = fill_warehouse(<<<<1>>>>).containers
    /\ InitController

SpecScenario == InitScenario /\ [][NextLive]_vars

\* The main thread before it submits anything: it constructs CranePaths and
\* calls the builder on them.  The engine is idle.
InitBuilder ==
    /\ \E warehouse_size \in SizeInputs :
          InitConf(warehouse_size, MaxSpeed, MaxSpeed)
    /\ cmds = [l \in ListIds |-> <<>>]
    /\ containers = <<>>
    /\ InitController

NextBuilder ==
    \/ \E warehouse_size \in SizeInputs, move_speed \in SpeedInputs,
          attach_detach_speed \in SpeedInputs :
          NewCranePath(1, warehouse_size, move_speed, attach_detach_speed)
    \/ \E position \in PositionInputs : MoveTo(1, position)
    \/ Attach(1)
    \/ Detach(1)
    \/ \E duration \in DurationInputs : Idle(1, duration)

SpecBuilder == InitBuilder /\ [][NextBuilder]_vars

\* The main thread fills the warehouse, with grids that fit and grids that do
\* not, and submits its path, which has no commands, between the fills.
NextFill ==
    \/ EngineStart
    \/ EngineTick
    \/ ClockAdvance
    \/ Exec(1)
    \/ \E args \in ColumnInputs : FillWarehouse(1, args)

SpecFill == InitBuilder /\ [][NextFill]_vars

\* The engine thread, the main thread, which submits the timeline it has
\* built and builds on, and a second control thread, which fills the
\* warehouse; in steps as fine as the lock.
NextLock ==
    \/ EngineStart
    \/ EngineEnter
    \/ EngineFrame
    \/ ClockAdvance
    \/ ExecStart(1)
    \/ ExecAcquire(1)
    \/ ExecAssign(1)
    \/ ExecClear(1)
    \/ ExecWait(1)
    \/ ExecCheck(1)
    \/ Attach(1)
    \/ FillClear(2)
    \/ \E args \in FillInputs : FillLoad(2, args)

SpecLock == InitBuilt /\ [][NextLock]_vars

\* A test calls smoothstep, as SmoothstepTest of test.py does: the controller
\* is constructed and idle, the arguments are drawn from SmoothInputs.
InitSmooth ==
    /\ InitConf(Size(1, 1, 1), SpeedBase - 2, SpeedBase - 1)
    /\ cmds = [l \in ListIds |-> <<>>]
    /\ containers = <<>>
    /\ InitCrane
    /\ smooth_args \in SmoothInputs
    /\ smooth_ret = <<>>

NextSmooth == CallSmoothstep

SpecSmooth == InitSmooth /\ [][NextSmooth]_vars

\* The engine thread and the main thread in a warehouse of two columns, with
\* moves that take 5 ms: the frames in between draw the crane on its way.
InitDisplay ==
    /\ InitConf(Size(2, 1, 1), SpeedBase - 5, SpeedBase - 1)
    /\ \E l \in Timelines(MaxCmds) : cmds = [i \in ListIds |-> IF i = 1 THEN l ELSE <<>>]
    /\ containers = fill_warehouse(<<<<1>>>>).containers
    /\ InitController

SpecDisplay == InitDisplay /\ [][NextLive]_vars

\* ==================================================================== claims

\* The commands of a log of <<command, ok>> entries
RECURSIVE Commands(_)
Commands(log) == IF log = <<>> THEN <<>> ELSE <<Head(log)[1]>> \o Commands(Tail(log))

\* The reference semantics: the commands applied one at a time, in order, to
\* st = [containers, attached, pos, ok]; ok becomes FALSE at the first
\* attach/detach that does not succeed, and nothing is applied after it.
ApplyOne(st, cmd) ==
    IF ~st.ok THEN st
    ELSE IF CmdOp(cmd) = "M" THEN [st EXCEPT !.pos = CmdPos(cmd)]
    ELSE IF CmdOp(cmd) = "A"
    THEN IF HasColumn(st.containers, st.pos)
            /\ st.containers[st.pos.x + 1][st.pos.z + 1] - 1 = st.pos.y
         THEN [st EXCEPT !.containers[st.pos.x + 1][st.pos.z + 1] = @ - 1,
                         !.attached = TRUE]
         ELSE [st EXCEPT !.ok = FALSE]
    ELSE IF CmdOp(cmd) = "D"
    THEN IF HasColumn(st.containers, st.pos)
            /\ st.containers[st.pos.x + 1][st.pos.z + 1] = st.pos.y
         THEN [st EXCEPT !.containers[st.pos.x + 1][st.pos.z + 1] = @ + 1,
                         !.attached = FALSE]
         ELSE [st EXCEPT !.ok = FALSE]
    ELSE st

RECURSIVE ApplyAll(_, _)
ApplyAll(st, list) ==
    IF list = <<>> THEN st ELSE ApplyAll(ApplyOne(st, Head(list)), Tail(list))

\* The submitted timeline applied sequentially to the state it was submitted in
Sequential ==
    ApplyAll([containers |-> snapshot.containers, attached |-> snapshot.attached,
              pos |-> snapshot.pos, ok |-> TRUE], submitted)

\* Thread t has been woken in exec by a live engine loop and is about to return
Returning(t) == cpc[t] = "exec_check" /\ epc = "loop"

\* C1: when exec is about to return from a timeline whose attach/detach
\* commands all succeed when applied one at a time in order, the grid heights,
\* the attached flag and the crane anchor are those of the sequential
\* application, whatever ticks the engine took and however late they were.
C1_FinalStateIsSequential ==
    \A t \in Threads :
        (Returning(t) /\ Sequential.ok) =>
            /\ containers = Sequential.containers
            /\ attached_container = Sequential.attached
            /\ crane_starting_pos = Sequential.pos

\* a three-command timeline with a successful attach has been consumed, one
\* tick having retired two commands
C1_Witness ==
    /\ Returning(1) /\ Sequential.ok
    /\ Len(submitted) = 3 /\ batch >= 2
    /\ attached_container /\ ~snapshot.attached
    /\ crane_starting_pos # snapshot.pos

\* C2: while a submission without a failed attach/detach is executed, the
\* commands handled so far followed by the pending ones are exactly the
\* submitted timeline: each handled once, in submission order, none skipped,
\* and each one succeeded.
C2_ExactlyOnceInOrder ==
    \A t \in Threads :
        (cpc[t] \in {"exec_clear", "exec_wait", "exec_check"} /\ failed = 0) =>
            /\ Commands(executed) \o cmds[cmd_list] = submitted
            /\ \A i \in 1..Len(executed) : executed[i][2]

\* all three commands of a timeline have been retired, two of them by one tick
C2_Witness ==
    /\ cpc[1] = "exec_check" /\ failed = 0
    /\ Len(executed) = 3 /\ batch >= 2
    /\ \E i \in 1..3 : CmdOp(executed[i][1]) \in {"A", "D"}

\* An entry of the log changed the anchor, the grid or the attached flag
HasEffect(entry) == entry[2] /\ CmdOp(entry[1]) \in {"M", "A", "D"}

\* C3: once an attach/detach has failed, no command after it in the timeline
\* has its side effect applied, and the engine is idle.
C3_HardStop ==
    failed # 0 =>
        /\ \A j \in (failed + 1)..Len(executed) : ~HasEffect(executed[j])
        /\ inactive_simulation

\* C4: with the engine loop alive and no failed attach/detach, exec is about
\* to return only when no command is pending and the time since submission
\* has reached the end of the last submitted command.
C4_ReturnsAfterConsumed ==
    \A t \in Threads :
        (Returning(t) /\ failed = 0) =>
            /\ cmds[cmd_list] = <<>>
            /\ clock >= LastEnd(submitted)

\* exec is about to return at the very millisecond the last of three commands ends
C4_Witness ==
    /\ Returning(1) /\ failed = 0
    /\ Len(submitted) = 3
    /\ clock = LastEnd(submitted)

\* C10 as stated: an exec that returns after an abort reports something other
\* than what a completed timeline gets (the outcome "None").
C10_AbortIsReported ==
    [][\A t \in Threads :
          (Returning(t) /\ cpc'[t] = "ready" /\ failed # 0) => result'[t] # "None"]_vars

\* C10 as amended: exec returns without raising, with one and the same
\* outcome, after an abort and after a completed timeline.
C10_SameOutcome ==
    [][\A t \in Threads :
          (Returning(t) /\ cpc'[t] = "ready") => result'[t] = "None"]_vars

\* exec is about to return from a timeline that a failed attach/detach aborted
\* with commands still pending
C10_Witness ==
    /\ Returning(1) /\ failed # 0
    /\ cmds[cmd_list] # <<>>

\* Thread t is inside exec
Calling(t) == cpc[t] \in {"exec_install", "exec_clear", "exec_wait", "exec_check"}

\* C5: while the engine loop keeps ticking (it has not died of an exception),
\* every call of exec returns, whatever the timeline: one that runs to
\* completion, an empty one, one with a failing attach/detach.
C5_ExecReturns ==
    Calling(1) ~> (cpc[1] = "ready" \/ epc = "crashed")

\* exec has been woken after a catch-up in which an attach/detach failed
C5_Witness ==
    /\ Returning(1) /\ failed # 0
    /\ Len(executed) >= 2

\* Thread t waits on the event, which is clear, and the engine thread has run
\* to its end: nothing is left that sets the event.
Stuck(t) == cpc[t] = "exec_wait" /\ ~inactive_simulation /\ epc = "done"

\* C6: a thread that called exec while the engine loop was still shutting down
\* is released, however its steps interleave with the shutdown steps: it is
\* never left waiting with the engine thread at its end.
C6_ReleasedByShutdown ==
    \A t \in Threads : ~dead_at_call[t] => ~Stuck(t)

\* C7: exec does not return normally when it was woken by the shutdown of the
\* engine loop, the submitted timeline neither consumed nor aborted: it raises
\* ThreadError.
C7_ShutdownRaises ==
    [][\A t \in Threads :
          ( /\ cpc[t] = "exec_check" /\ cpc'[t] = "ready"
            /\ epc # "loop" /\ failed = 0 /\ cmds[cmd_list] # <<>> )
          => result'[t] = "ThreadError"]_vars

\* C8: a call of exec made after the engine thread has terminated does not
\* block for ever: it is never left waiting on the cleared event, and once
\* woken it is about to raise ThreadError.
C8_RaisesOnceTerminated ==
    \A t \in Threads :
        dead_at_call[t] =>
            /\ ~Stuck(t)
            /\ cpc[t] = "exec_check" => ~engine_is_running

\* A submitted timeline is being executed
Running == ~inactive_simulation /\ cmds[cmd_list] # <<>>

\* C9: while a timeline is Running, a further submission is rejected: no
\* step replaces the engine's command list or moves its start time, so the
\* time elapsed since the submission never goes back.
C9_BusyRejected ==
    [][Running => (cmd_list' = cmd_list /\ clock' >= clock)]_vars

\* The last entry of the log of handled commands
LastExecuted == executed[Len(executed)]

\* This step is a tick of the engine that handled exactly one command, of kind op
HandlesOne(op) ==
    /\ Len(executed') = Len(executed) + 1
    /\ CmdOp(executed'[Len(executed')][1]) = op

\* C11: an attach with the hook at pos succeeds iff the column under the hook
\* has height pos.y + 1; on success that column, and no other, is one lower
\* and the attached flag is set; on failure no height and not the flag change.
C11_AttachContract ==
    [][HandlesOne("A") =>
          LET pos == crane_starting_pos
              ok == executed'[Len(executed')][2]
          IN  /\ ok <=> (containers[pos.x + 1][pos.z + 1] - 1 = pos.y)
              /\ ok => /\ containers' = [containers EXCEPT ![pos.x + 1][pos.z + 1] = @ - 1]
                        /\ attached_container'
              /\ ~ok => /\ containers' = containers
                         /\ attached_container' = attached_container]_vars

\* an attach has succeeded on the second column of a grid of two columns,
\* after a detach there, and the first column is as it was filled
C11_Witness ==
    /\ Len(executed) = 3 /\ CmdOp(LastExecuted[1]) = "A" /\ LastExecuted[2]
    /\ crane_starting_pos.x = 1 /\ attached_container
    /\ Len(containers) = 2 /\ containers[1] = snapshot.containers[1]

\* C12: a detach with the hook at pos succeeds iff the column under the hook
\* has height pos.y; on success that column, and no other, is one higher and
\* the attached flag is cleared; on failure no height and not the flag change.
C12_DetachContract ==
    [][HandlesOne("D") =>
          LET pos == crane_starting_pos
              ok == executed'[Len(executed')][2]
          IN  /\ ok <=> (containers[pos.x + 1][pos.z + 1] = pos.y)
              /\ ok => /\ containers' = [containers EXCEPT ![pos.x + 1][pos.z + 1] = @ + 1]
                        /\ ~attached_container'
              /\ ~ok => /\ containers' = containers
                         /\ attached_container' = attached_container]_vars

\* a detach has succeeded on the second column of a grid of two columns, and
\* the first column is as it was filled
C12_Witness ==
    /\ Len(executed) = 3 /\ CmdOp(LastExecuted[1]) = "D" /\ LastExecuted[2]
    /\ crane_starting_pos.x = 1
    /\ Len(containers) = 2 /\ containers[1] = snapshot.containers[1]
    /\ containers[2] # snapshot.containers[2]

\* The scenario has been submitted on the grid with column (0, 0) of height 1
InScenario == submitted = ScenarioPath /\ snapshot.containers = <<<<1>>>>

\* C13 as stated: of move_to(0,0,0), attach, move_to(0,1,0), detach, detach
\* on that grid the attach succeeds (height 0, attached) and the first
\* detach, at (0,1,0), succeeds (height 1, not attached).
C13_Scenario ==
    InScenario =>
        LET n == Len(executed) IN
        /\ n >= 2 => executed[2][2]
        /\ n \in {2, 3} => (containers = <<<<0>>>> /\ attached_container)
        /\ n >= 4 => (executed[4][2] /\ containers = <<<<1>>>> /\ ~attached_container)

\* C13 as amended: the attach succeeds (height 0, attached); the first
\* detach, with the hook at (0,1,0) over a column of height 0, fails and
\* leaves height 0 and the flag set; the failure ends the submission, so the
\* second detach is not handled in it and stays in the path.
C13_FirstDetachFails ==
    InScenario =>
        LET n == Len(executed) IN
        /\ n >= 2 => (executed[2][2] /\ containers = <<<<0>>>> /\ attached_container)
        /\ n >= 4 => (~executed[4][2] /\ crane_starting_pos = Position(0, 1, 0))
        /\ n <= 4
        /\ n = 4 => (inactive_simulation /\ cmds[cmd_list] = <<ScenarioPath[5]>>)

\* the first detach of the scenario has been handled, and exec is about to return
C13_Witness ==
    /\ InScenario /\ Returning(1)
    /\ Len(executed) = 4 /\ failed = 4

\* This step is a tick of the engine that handled exactly one command, of kind
\* op, right after a successful command of the same kind: the hook has not moved.
HandlesSecond(op) ==
    /\ HandlesOne(op)
    /\ executed # <<>> /\ CmdOp(LastExecuted[1]) = op /\ LastExecuted[2]

\* C14: an attach that immediately follows a successful attach, the hook at
\* the same position, fails and leaves the heights and the attached flag
\* unchanged; and so does a detach that immediately follows a successful detach.
C14_SecondFails ==
    [][\A op \in {"A", "D"} :
          HandlesSecond(op) =>
              /\ ~executed'[Len(executed')][2]
              /\ containers' = containers
              /\ attached_container' = attached_container
              /\ crane_starting_pos' = crane_starting_pos]_vars

\* a detach has succeeded and the detach right after it has failed
C14_Witness ==
    /\ Len(executed) >= 2
    /\ CmdOp(LastExecuted[1]) = "D" /\ ~LastExecuted[2]
    /\ CmdOp(executed[Len(executed) - 1][1]) = "D" /\ executed[Len(executed) - 1][2]
    /\ batch = 1

\* C15: every column height is at least 0 and at most worldSize.y - 1, where
\* worldSize is the bounding size of the path (the warehouse size with y
\* padded by one), after any accepted fill_warehouse and any executed commands.
C15_HeightsInBounds ==
    \A x \in 1..Len(containers) : \A z \in 1..Len(containers[x]) :
        /\ 0 <= containers[x][z]
        /\ containers[x][z] <= path.warehouse_size.y - 1

\* The path and the controller were constructed from one Size, as in example.py
OneSize == plane = Plane(path_args.warehouse_size)

\* The three reasons C16 gives for a rejected fill, for the warehouse size
\* (sx, sy, sz): worldSize.y - 1 is (sy + 1) - 1.
TooWide(args, size) == Len(args) > size.x
TooDeep(args, size) == \E x \in 1..Len(args) : Len(args[x]) > size.z
TooHigh(args, size) ==
    \E x \in 1..Len(args) : \E z \in 1..Len(args[x]) : args[x][z] > (size.y + 1) - 1

\* C16: fill_warehouse raises ValueError iff there are more x-columns than
\* the warehouse is wide, or a column is longer than the warehouse is deep, or
\* a height exceeds worldSize.y - 1; otherwise the grid becomes the given one.
C16_FillRejects ==
    [][\A args \in ColumnInputs :
          (OneSize /\ FillWarehouse(1, args)) =>
              LET size == path_args.warehouse_size IN
              /\ result'[1] = "ValueError" <=>
                     (TooWide(args, size) \/ TooDeep(args, size) \/ TooHigh(args, size))
              /\ result'[1] = "None" => containers' = args]_vars

\* C17: the commands of a CranePath that only builder calls have touched are
\* contiguous: the first starts at 0, each later one starts where the one
\* before it ends, and each ends after it starts.
C17_Contiguous ==
    LET l == cmds[PathOf(1)] IN
    /\ l # <<>> => CmdStart(l[1]) = 0
    /\ \A i \in 2..Len(l) : CmdStart(l[i]) = CmdEnd(l[i - 1])
    /\ \A i \in 1..Len(l) : CmdEnd(l[i]) > CmdStart(l[i])
    /\ \A i, j \in 1..Len(l) : i < j => CmdStart(l[i]) < CmdStart(l[j])

\* a path of three commands of three kinds, of different durations, built
\* with a rejected call among the calls
C17_Witness ==
    LET l == cmds[PathOf(1)] IN
    /\ Len(l) = 3
    /\ Cardinality({CmdOp(l[i]) : i \in 1..3}) = 3
    /\ Cardinality({CmdEnd(l[i]) - CmdStart(l[i]) : i \in 1..3}) = 3
    /\ result[1] = "ValueError"

\* The last command of the main thread's path after this step, and its duration
Appended == cmds'[PathOf(1)][Len(cmds'[PathOf(1)])]
AppendedDuration == CmdEnd(Appended) - CmdStart(Appended)

\* C18: a command appended by move_to lasts 1001 - move_speed, one appended
\* by attach or detach lasts 1001 - attach_detach_speed, one appended by
\* idle(d) lasts d, for the speeds the path was constructed with and
\* whatever commands precede it.
C18_Durations ==
    [][/\ \A position \in PositionInputs :
             (MoveTo(1, position) /\ result'[1] = "None") =>
                 AppendedDuration = 1001 - path_args.move_speed
       /\ (Attach(1) \/ Detach(1)) =>
                 AppendedDuration = 1001 - path_args.attach_detach_speed
       /\ \A duration \in DurationInputs :
             (Idle(1, duration) /\ result'[1] = "None") =>
                 AppendedDuration = duration]_vars

\* a path built with the speeds 1 and 1000: a move of 1000 ms, an attach of
\* 1 ms and after them an idle of 3 ms
C18_Witness ==
    LET l == cmds[PathOf(1)] IN
    /\ path_args.move_speed = 1 /\ path_args.attach_detach_speed = 1000
    /\ Len(l) = 3
    /\ CmdOp(l[1]) = "M" /\ CmdOp(l[2]) = "A" /\ CmdOp(l[3]) = "I"
    /\ CmdEnd(l[3]) - CmdStart(l[3]) = 3

C21_IdleRejects ==
    [][\A duration \in DurationInputs :
          Idle(1, duration) =>
              /\ result'[1] = "ValueError" <=> duration < 1
              /\ result'[1] \in {"None", "ValueError"}
              /\ result'[1] = "ValueError" => cmds' = cmds
              /\ result'[1] = "None" =>
                     /\ cmds'[PathOf(1)] = Append(cmds[PathOf(1)], Appended)
                     /\ CmdOp(Appended) = "I"
                     /\ CmdStart(Appended) = LastEnd(cmds[PathOf(1)])]_vars

\* an idle command was appended, a call was rejected, and the path is as the
\* accepted calls left it: two idle commands, the second starting where the
\* first ends
C21_Witness ==
    LET l == cmds[PathOf(1)] IN
    /\ Len(l) = 2 /\ CmdOp(l[1]) = "I" /\ CmdOp(l[2]) = "I"
    /\ CmdEnd(l[1]) = 3 /\ CmdStart(l[2]) = 3
    /\ result[1] = "ValueError"

Handled == (Len(executed) + 1)..Len(executed')

\* C25: every command a tick handles has its end time at or before the time
\* elapsed at that tick: no anchor is set to the destination of a move, no
\* attach or detach is applied and no idle is retired before its end.
C25_NothingEarly ==
    [][\A i \in Handled : CmdEnd(executed'[i][1]) <= clock]_vars

\* one tick has handled two commands, the second of them a move that ends at
\* this very millisecond, and a command is still pending
C25_Witness ==
    /\ Len(executed) = 2 /\ batch = 2
    /\ CmdOp(executed[2][1]) = "M" /\ CmdEnd(executed[2][1]) = clock
    /\ crane_starting_pos = CmdPos(executed[2][1])
    /\ cmds[cmd_list] # <<>>

\* This step is a tick in which the catch-up ran to its end
CatchUp == Len(executed') > Len(executed) /\ epc' = "loop"

\* How many pending commands start before time t, and how many at or before it
StartedBefore(list, t) == Cardinality({i \in 1..Len(list) : CmdStart(list[i]) < t})
StartedBy(list, t) == Cardinality({i \in 1..Len(list) : CmdStart(list[i]) <= t})

\* C26 as stated: the catch-up handles the pending commands before m, the
\* index of the first pending command that starts at or after the elapsed
\* time (all of them when there is none), and at least one.
C26_CutAtFirstNotStarted ==
    [][CatchUp =>
          /\ Len(executed') - Len(executed) = Max2(1, StartedBefore(cmds[cmd_list], clock))
          /\ cmds'[cmd_list] =
                 SubSeq(cmds[cmd_list], Max2(1, StartedBefore(cmds[cmd_list], clock)) + 1,
                        Len(cmds[cmd_list]))]_vars

\* C26 as amended: the catch-up handles the pending commands before m, the
\* index of the current command: the last pending command that starts at or
\* before the elapsed time; and at least one.
C26_CutAtCurrent ==
    [][CatchUp =>
          LET m == StartedBy(cmds[cmd_list], clock) - 1 IN
          /\ Len(executed') - Len(executed) = Max2(1, m)
          /\ cmds'[cmd_list] = SubSeq(cmds[cmd_list], Max2(1, m) + 1, Len(cmds[cmd_list]))
          /\ \A i \in Handled : executed'[i][1] = cmds[cmd_list][i - Len(executed)]]_vars

\* a late tick has handled two commands of three and left the third, which
\* has started and is not the command at the elapsed time exactly
C26_Witness ==
    /\ Len(submitted) = 3 /\ Len(executed) = 2 /\ batch = 2
    /\ Len(cmds[cmd_list]) = 1
    /\ CmdStart(cmds[cmd_list][1]) < clock
    /\ epc = "loop"

\* The current command's end time lies after the elapsed time
NotDue == cmds[cmd_list] # <<>> /\ clock < CmdEnd(cmds[cmd_list][1])

\* C27: while a timeline is Running and its current command is not due, no
\* step of the engine (a step in which no control thread moves and the time
\* read stays the same) changes the pending command list, the grid heights,
\* the attached flag, the crane anchor or the Running status.
C27_NotDueFrame ==
    [][(Running /\ NotDue /\ epc = "loop" /\ cpc' = cpc /\ clock' = clock) =>
          /\ cmd_list' = cmd_list
          /\ cmds'[cmd_list] = cmds[cmd_list]
          /\ UNCHANGED gridvars
          /\ ~inactive_simulation'
          /\ executed' = executed]_vars

\* the engine renders frames in the middle of a move: the move has started
\* and has not ended, and an earlier command of the timeline was handled
C27_Witness ==
    /\ Running /\ NotDue /\ epc = "loop"
    /\ CmdOp(cmds[cmd_list][1]) = "M"
    /\ CmdStart(cmds[cmd_list][1]) < clock
    /\ executed # <<>>

\* The engine is Idle: the idle event is set and no control thread is in exec
Idle_engine == inactive_simulation /\ \A t \in Threads : cpc[t] = "ready"

\* C28: whenever the engine is Idle it holds no pending commands, after a
\* timeline ran to its end and after an abort by a failed attach or detach.
C28_IdleHoldsNothing == Idle_engine => cmds[cmd_list] = <<>>

\* This step is a builder call of thread t on its CranePath
BuilderCall(t) ==
    \/ \E position \in MoveInputs : MoveTo(t, position)
    \/ Attach(t)
    \/ Detach(t)
    \/ \E duration \in IdleInputs : Idle(t, duration)

\* C29: no builder call, on a CranePath submitted earlier or not, changes
\* the engine's command list, the grid heights, the attached flag or the
\* crane anchor; and attach and detach raise nothing, whatever the grid is.
C29_BuilderIsPure ==
    [][\A t \in Threads :
          /\ BuilderCall(t) =>
                 /\ cmd_list' = cmd_list
                 /\ cmds'[cmd_list] = cmds[cmd_list]
                 /\ UNCHANGED gridvars
          /\ (Attach(t) \/ Detach(t)) => result'[t] = "None"]_vars

\* This step writes the engine's command list, the grid or the attached flag
SharedWritten ==
    \/ cmd_list' # cmd_list
    \/ cmds'[cmd_list] # cmds[cmd_list]
    \/ containers' # containers
    \/ attached_container' # attached_container

\* C22: every write of the engine's command list, the grid heights or the
\* attached flag is made by the thread that holds cmd_lock: the engine in its
\* tick, a control thread in exec, in fill_warehouse and in a builder call on
\* the CranePath the engine refers to.  So no two threads are inside such a
\* write at the same time.
C22_WritesUnderLock ==
    [][/\ SharedWritten => cmd_lock # NoThread
       /\ \A t \in Threads :
             /\ (ExecAssign(t) \/ FillClear(t)) => cmd_lock = t
             /\ (\E args \in FillInputs : FillLoad(t, args)) => cmd_lock = t
             /\ (Attach(t) /\ cmd_list = PathOf(t)) => cmd_lock = t
       /\ EngineFrame => cmd_lock = EngineThread]_vars

\* C22, the exclusion alone: the engine is not inside its tick while a
\* control thread is inside fill_warehouse
C22_Exclusion == ~(epc = "tick" /\ \E t \in Threads : cpc[t] = "fill")

\* ease(k / n), the floats smoothstep can return for t = k / n
EaseTable == [n \in 1..MaxSpan |-> [k \in 0..n |-> smoothstep(0, n, k)]]

\* The call has returned for a t = SmoothK / SmoothN in [0, 1]
SmoothK == smooth_args[3] - smooth_args[1]
SmoothN == smooth_args[2] - smooth_args[1]
EaseReturned == smooth_ret # <<>> /\ SmoothK \in 0..SmoothN

Half == Float(NatOf(1), -1)

\* ease(0) = 0, ease(1) = 1, ease(0.5) = 0.5, and ease(s) <= ease(t) for s < t
EaseEndsAndOrder ==
    /\ SmoothK = 0 => smooth_ret[1] = Zero
    /\ SmoothK = SmoothN => smooth_ret[1] = One
    /\ 2 * SmoothK = SmoothN => smooth_ret[1] = Half
    /\ \A n \in 1..MaxSpan : \A k \in 0..n :
          k * SmoothN < SmoothK * n => \A i \in EaseTable[n][k] : FloatLeq(i, smooth_ret[1])

\* The float sums ease(t) + ease(1 - t) for the value returned for t
MirrorSums == {FloatAdd(smooth_ret[1], i) : i \in EaseTable[SmoothN][SmoothN - SmoothK]}

\* C24 as stated: ease(0) = 0, ease(1) = 1, ease(0.5) = 0.5, ease is
\* non-decreasing over the t = k / n, and ease(t) + ease(1 - t) is 1.
C24_EaseExact ==
    EaseReturned => (EaseEndsAndOrder /\ \A sum \in MirrorSums : sum = One)

\* 1 - 2^-50 and 1 + 2^-50
OneBelow == [m |-> [i \in 1..50 |-> 1], e |-> -50]
OneAbove == [m |-> <<1>> \o [i \in 1..49 |-> 0] \o <<1>>, e |-> -50]

\* C24 as amended: ease(0) = 0, ease(1) = 1, ease(0.5) = 0.5, ease is
\* non-decreasing over the t = k / n, and the float sum ease(t) + ease(1 - t)
\* is 1 where t is a multiple of 1/8 and within 2^-50 of 1 everywhere.
C24_EaseRounded ==
    EaseReturned =>
        /\ EaseEndsAndOrder
        /\ \A sum \in MirrorSums :
              /\ FloatLeq(OneBelow, sum) /\ FloatLeq(sum, OneAbove)
              /\ (8 * SmoothK) % SmoothN = 0 => sum = One

\* smoothstep has returned ease(1/5), and whatever it returns for 4/5, the
\* sum ease(1/5) + ease(4/5) is not 1 and is within 2^-50 of 1
C24_Witness ==
    /\ EaseReturned
    /\ SmoothK = 1 /\ SmoothN = 5
    /\ \A sum \in MirrorSums : sum # One /\ FloatLeq(OneBelow, sum) /\ FloatLeq(sum, OneAbove)

\* The float p lies between the integers a and b
Between(a, p, b) ==
    /\ FloatLeq(FloatOf(IF a <= b THEN a ELSE b), p)
    /\ FloatLeq(p, FloatOf(IF a <= b THEN b ELSE a))

\* The elapsed time clamped into the current command's span, counted from its start
ClampedElapsed(cmd) ==
    IF clock <= CmdStart(cmd) THEN 0
    ELSE IF clock >= CmdEnd(cmd) THEN CmdEnd(cmd) - CmdStart(cmd)
    ELSE clock - CmdStart(cmd)

\* C30: while a timeline is Running, a frame draws the crane at the anchor
\* when the current command is not a move; when it is a move, at
\* anchor + (dest - anchor) * ease(t) for t the elapsed share of the move's
\* span, clamped into [0, 1]: each component between the anchor's and the
\* destination's, and at the anchor when the elapsed time is the move's start.
C30_DisplayedPosition ==
    (Running /\ epc = "loop") =>
        LET cmd == cmds[cmd_list][1]
            anchor == crane_starting_pos
        IN  \A pos \in current_pos :
               IF CmdOp(cmd) # "M"
               THEN pos = Vector3(anchor.x, anchor.y, anchor.z)
               ELSE /\ \E i \in EaseTable[CmdEnd(cmd) - CmdStart(cmd)][ClampedElapsed(cmd)] :
                        pos = [x |-> Interpolated(anchor.x, CmdPos(cmd).x, i),
                               y |-> Interpolated(anchor.y, CmdPos(cmd).y, i),
                               z |-> Interpolated(anchor.z, CmdPos(cmd).z, i)]
                    /\ Between(anchor.x, pos.x, CmdPos(cmd).x)
                    /\ Between(anchor.y, pos.y, CmdPos(cmd).y)
                    /\ Between(anchor.z, pos.z, CmdPos(cmd).z)
                    /\ clock = CmdStart(cmd) => pos = Vector3(anchor.x, anchor.y, anchor.z)

\* a frame in the middle of the second move of a timeline: the crane is
\* drawn off the grid points, x above the anchor's and y below it
C30_Witness ==
    /\ Running /\ NotDue /\ epc = "loop"
    /\ executed # <<>>
    /\ CmdOp(cmds[cmd_list][1]) = "M"
    /\ CmdStart(cmds[cmd_list][1]) < clock
    /\ crane_starting_pos = Position(0, 1, 0)
    /\ CmdPos(cmds[cmd_list][1]) = Position(1, 0, 0)
    /\ \A pos \in current_pos :
          /\ ~FloatLeq(pos.x, FloatOf(0)) /\ ~FloatLeq(FloatOf(1), pos.x)
          /\ ~FloatLeq(pos.y, FloatOf(0)) /\ ~FloatLeq(FloatOf(1), pos.y)
          /\ pos.z = FloatOf(0)

\* The engine's next tick sees the Running signal: it passes the test of
\* line 356 and evaluates the command list against the elapsed time
SeesRunning == epc = "loop" /\ ~engine_shutdown /\ ~inactive_simulation

\* C31: a submission is one step for the engine: whenever a tick sees the
\* Running signal, the command list it evaluates, the start time it measures
\* the elapsed time from and the Running signal itself were all written by
\* the same call of exec.
C31_SubmissionAtomic ==
    SeesRunning =>
        /\ written_by.start_time = cmd_list
        /\ written_by.inactive_simulation = cmd_list

\* The containers in the warehouse: those stacked in the grid, and the one on
\* the hook
RECURSIVE SumOf(_)
SumOf(s) == IF s = <<>> THEN 0 ELSE Head(s) + SumOf(Tail(s))
Stacked(cont) == SumOf([x \in 1..Len(cont) |-> SumOf(cont[x])])
Held(att) == IF att THEN 1 ELSE 0

\* exec has installed a timeline and has not returned: snapshot holds the
\* grid and the attached flag the timeline started from
Installed == \E t \in Threads : cpc[t] \in {"exec_clear", "exec_wait", "exec_check"}

\* C32: containers are conserved: at every point of the execution of a
\* timeline, the sum of the column heights plus one for an attached container
\* is what it was when the timeline was installed.
C32_Conserved ==
    Installed =>
        Stacked(containers) + Held(attached_container)
            = Stacked(snapshot.containers) + Held(snapshot.attached)

\* C33: an Attach or Detach with the hook at the initial position or at a
\* position move_to accepted ends as a success or a signalled failure,
\* whatever grid is loaded (none, or one with fewer or shorter columns than
\* the warehouse): no exception ends the engine loop in the middle of a
\* tick.
C33_NeverCrashes == epc # "crashed"

\* C34: a fill_warehouse call that raises (too many columns, a column that
\* is too long, a height that is too large) leaves the grid as it was before
\* the call: the heights are neither cleared nor partly replaced.
C34_FailedFillKeepsGrid ==
    [][\A args \in ColumnInputs :
          (FillWarehouse(1, args) /\ result'[1] = "ValueError") => containers' = containers]_vars

\* Of the commands this step handles: the moves, and the attaches and
\* detaches that succeed
HandledMoves == {i \in Handled : CmdOp(executed'[i][1]) = "M"}
HandledHooks == {i \in Handled : CmdOp(executed'[i][1]) \in {"A", "D"} /\ executed'[i][2]}
LastOf(S) == CHOOSE i \in S : \A j \in S : j <= i

\* C35: the crane's state carries over between submissions: the anchor is
\* (0,0,0) and the flag false at first, and every step (of exec, of
\* fill_warehouse, of the builder, of the engine) leaves the anchor at the
\* destination of the last move a tick has handled, and the attached flag at
\* the outcome of the last attach or detach that succeeded; a step in which
\* no command is handled changes neither.
C35_CarriesOver ==
    /\ crane_starting_pos = Position(0, 0, 0) /\ ~attached_container
    /\ [][(crane_starting_pos' =
                IF HandledMoves = {} THEN crane_starting_pos
                ELSE CmdPos(executed'[LastOf(HandledMoves)][1]))
           /\ (attached_container' =
                IF HandledHooks = {} THEN attached_container
                ELSE CmdOp(executed'[LastOf(HandledHooks)][1]) = "A")]_vars

\* a second timeline has been installed and nothing of it is handled yet: it
\* starts with the hook where the last move of the first timeline left it,
\* away from (0,0,0), and with the container the first timeline attached
C35_Witness ==
    /\ cpc[1] = "exec_wait" /\ executed = <<>>
    /\ ~inactive_simulation
    /\ snapshot.pos # Position(0, 0, 0) /\ snapshot.attached
    /\ crane_starting_pos = snapshot.pos /\ attached_container
    /\ submitted # <<>>

\* The engine's next tick runs the catch-up: it sees Running, a command is
\* pending and the first pending command is due
CatchUpRuns ==
    /\ SeesRunning
    /\ cmds[cmd_list] # <<>>
    /\ CmdDue(clock, cmds[cmd_list][1])

\* C36: whenever the catch-up runs, the search returns the index of a pending
\* command (not -1, not one past the end), and the number of commands the
\* catch-up is to execute, the index raised to at least 1, is at least 1 and
\* at most the number of pending commands; the tick that runs it does not end
\* by taking a command from the emptied list.
C36_CountInRange ==
    /\ [](CatchUpRuns =>
            LET index == find_cmd_index(cmds[cmd_list], clock)
                count == IF index > 0 THEN index ELSE 1
            IN  /\ index \in 0..(Len(cmds[cmd_list]) - 1)
                /\ count \in 1..Len(cmds[cmd_list]))
    /\ [][(CatchUpRuns /\ cmds'[cmd_list] = <<>>) => epc' = "loop"]_vars

\* the catch-up runs with three commands pending and all of them overdue: the
\* search returns the index of the last one, so two are executed by this tick
C36_Witness ==
    /\ CatchUpRuns
    /\ Len(cmds[cmd_list]) = 3
    /\ clock >= CmdEnd(cmds[cmd_list][3])
    /\ find_cmd_index(cmds[cmd_list], clock) = 2

====
